---- MODULE Spec2Model ----
(***************************************************************************)
(* Model of bevy_simpletoon's plugin (src/src/plugin.rs): plugin setup     *)
(* (build / finish), the PostProcessPipeline resource, and the per-view    *)
(* render-graph node SimpletoonPostProcessNode::run.  The host renderer    *)
(* (frame preparation, the render-graph executor, the ping-pong view       *)
(* target) appears only through the interface run() uses.                  *)
(***************************************************************************)
EXTENDS Integers, Sequences, FiniteSets, TLC

\* ------------------------------------------------------------------ bounds
NumViews == 2
OtherPipelines == 1

Views == 1..NumViews

\* --------------------------------------------------------------- constants
None == [some |-> FALSE]
Some(x) == [some |-> TRUE, val |-> x]

Tonemapping == "Node3d::Tonemapping"
Fxaa == "Node3d::Fxaa"
EndMainPassPostProcessing == "Node3d::EndMainPassPostProcessing"
SimpletoonPostProcessLabel == "SimpletoonPostProcessLabel"

\* The Core3d nodes of the host that build() names in its edges.
HostNodes == {Tonemapping, Fxaa, EndMainPassPostProcessing}

VARIABLES
    phase,            \* "new" -> "built" -> "finished" -> "running"
    hasRenderApp,     \* whether app.get_sub_app_mut(RenderApp) is Some
    setupError,       \* a panic or error raised by build/finish
    embeddedAssets,   \* assets registered in the main app
    plugins,          \* plugins added to the main app
    graphNodes,       \* nodes of the render app's Core3d graph
    graphEdges,       \* ordering edges of the Core3d graph
    pipelineRes,      \* the PostProcessPipeline resource (None until created)
    pipelineQueued,   \* number of descriptors queued in the PipelineCache
    creations,        \* number of PostProcessPipeline::from_world calls
    settings,         \* per camera: its SimpletoonSettings component
    frameOpen,        \* a frame has been prepared and its graph is running
    compiled,         \* ids the PipelineCache has compiled
    viewBinding,      \* ViewUniforms.uniforms.binding() is Some
    settingsBinding,  \* ComponentUniforms<SimpletoonSettings> binding is Some
    prepass,          \* per view: which prepass textures exist
    target,           \* per view: the ViewTarget (ping-pong colour buffers)
    done,             \* per view: graph nodes already run this frame
    inv,              \* per view: what this frame's run() invocation did
    skippedLast       \* every invocation of the previous frame skipped

vars == <<phase, hasRenderApp, setupError, embeddedAssets, plugins, graphNodes,
          graphEdges, pipelineRes, pipelineQueued, creations, settings, frameOpen,
          compiled, viewBinding, settingsBinding, prepass, target, done, inv,
          skippedLast>>

setupVars == <<hasRenderApp, setupError, embeddedAssets, plugins, graphNodes,
               graphEdges, pipelineRes, pipelineQueued, creations>>
frameVars == <<frameOpen, compiled, viewBinding, settingsBinding, prepass,
               target, done, inv, skippedLast>>

\* ------------------------------------------------------- Settings Model
\* f32 literals are held in tenths (1.0 is 10, 0.4 is 4, 30.0 is 300).
SimpletoonSettingsDefaultAlt ==
    [ depth_threshold |-> 10,
      depth_threshold_depth_mul |-> 10,
      depth_normal_threshold |-> 4,
      depth_normal_threshold_mul |-> 300,
      normal_threshold |-> 4,
      colour_threshold |-> 4,
      stroke_size |-> 10,
      colour_banding |-> 50,
      stroke_colour |-> <<1, 1, 1, 10>> ]

\* impl Default for SimpletoonSettings
SimpletoonSettingsDefault ==
    [ depth_threshold |-> 10,
      depth_threshold_depth_mul |-> 10,
      depth_normal_threshold |-> 4,
      depth_normal_threshold_mul |-> 300,
      normal_threshold |-> 4,
      colour_threshold |-> 2,
      stroke_size |-> 10,
      colour_banding |-> 50,
      stroke_colour |-> <<1, 1, 1, 10>> ]

NoSettings == [attached |-> FALSE]

\* --------------------------------------------- Resource/Pipeline Builder
\* BindGroupLayoutEntries::sequential(FRAGMENT, (...)): slot i+1 of the
\* sequence is binding index i.
PostProcessLayout ==
    << [ty |-> "texture_2d",       of |-> "float_filterable",   dynamic |-> FALSE],
       [ty |-> "sampler",          of |-> "filtering",          dynamic |-> FALSE],
       [ty |-> "uniform_buffer",   of |-> "SimpletoonSettings", dynamic |-> TRUE],
       [ty |-> "texture_depth_2d", of |-> "depth",              dynamic |-> FALSE],
       [ty |-> "texture_2d",       of |-> "float_filterable",   dynamic |-> FALSE],
       [ty |-> "uniform_buffer",   of |-> "ViewUniform",        dynamic |-> TRUE] >>

DefaultSampler == [res |-> "sampler", of |-> "filtering"]

\* PipelineCache::queue_render_pipeline returns the index of the new entry.
QueueRenderPipeline == pipelineQueued

\* impl FromWorld for PostProcessPipeline
FromWorld ==
    [ some |-> TRUE,
      layout |-> PostProcessLayout,
      sampler |-> DefaultSampler,
      pipeline_id |-> QueueRenderPipeline ]

\* app.get_sub_app_mut(RenderApp)
GetSubAppMutAssumed == "Some"

GetSubAppMut == IF hasRenderApp THEN "Some" ELSE "None"

\* add_render_graph_edges(Core3d, (n1, ..., nk)): an edge between each
\* consecutive pair of the tuple.
ChainEdges(nodes) == { <<nodes[i], nodes[i + 1]>> : i \in 1..(Len(nodes) - 1) }

SimpletoonEdgesAfterFxaa ==
    <<Tonemapping, Fxaa, SimpletoonPostProcessLabel, EndMainPassPostProcessing>>

SimpletoonEdges ==
    <<Tonemapping, SimpletoonPostProcessLabel, Fxaa, EndMainPassPostProcessing>>

\* ----------------------------------------------------------- plugin setup
\* SimpletoonPlugin::build
Build ==
    /\ phase = "new"
    /\ phase' = "built"
    /\ embeddedAssets' = embeddedAssets \cup {"assets/toon.wgsl"}
    /\ plugins' = plugins \cup {"ExtractComponentPlugin<SimpletoonSettings>",
                                "UniformComponentPlugin<SimpletoonSettings>"}
    /\ IF GetSubAppMut = "None"
       THEN UNCHANGED <<graphNodes, graphEdges>>
       ELSE /\ graphNodes' = graphNodes \cup {SimpletoonPostProcessLabel}
            /\ graphEdges' = graphEdges \cup ChainEdges(SimpletoonEdges)
    /\ UNCHANGED <<hasRenderApp, setupError, pipelineRes, pipelineQueued,
                   creations, settings>>
    /\ UNCHANGED frameVars

\* SimpletoonPlugin::finish; init_resource creates the resource only when
\* it is not there yet.
Finish ==
    /\ phase = "built"
    /\ phase' = "finished"
    /\ IF GetSubAppMut = "None" \/ pipelineRes.some
       THEN UNCHANGED <<pipelineRes, pipelineQueued, creations>>
       ELSE /\ pipelineRes' = FromWorld
            /\ pipelineQueued' = pipelineQueued + 1
            /\ creations' = creations + 1
    /\ UNCHANGED <<hasRenderApp, setupError, embeddedAssets, plugins,
                   graphNodes, graphEdges, settings>>
    /\ UNCHANGED frameVars

\* The application's startup system spawns each camera with
\* SimpletoonSettings::default().
Setup ==
    /\ phase = "finished"
    /\ phase' = "running"
    /\ settings' = [v \in Views |-> SimpletoonSettingsDefault]
    /\ UNCHANGED setupVars
    /\ UNCHANGED frameVars

\* ------------------------------------------------ per-view render inputs
Other(t) == IF t = "a" THEN "b" ELSE "a"

ColourView(v, t) == [res |-> "colour_texture", view |-> v, tex |-> t]
DepthView(v) == [res |-> "depth_texture", view |-> v]
NormalView(v) == [res |-> "normal_texture", view |-> v]
SettingsUniformBinding == [res |-> "uniform", of |-> "SimpletoonSettings"]
ViewUniformBinding == [res |-> "uniform", of |-> "ViewUniform"]

\* DynamicUniformIndex<SimpletoonSettings> and ViewUniformOffset of the view
\* entity: each view has its own slice of each shared uniform buffer.
SettingsIndex(v) == [buffer |-> "SimpletoonSettings", slot |-> v - 1]
ViewUniformOffset(v) == [buffer |-> "ViewUniform", slot |-> NumViews - v]

\* pipeline_cache.get_render_pipeline(id): Some only for a compiled id.
GetRenderPipeline(id) == IF id \in compiled THEN Some(id) ELSE None

\* The lookups of run(), in the order the code makes them.
Resolve(v) ==
    [ pipeline |-> GetRenderPipeline(pipelineRes.pipeline_id),
      view_uniforms |-> IF viewBinding THEN Some(ViewUniformBinding) ELSE None,
      settings_binding |->
          IF settingsBinding THEN Some(SettingsUniformBinding) ELSE None,
      depth |-> IF prepass[v].depth THEN Some(DepthView(v)) ELSE None,
      normal |-> IF prepass[v].normal THEN Some(NormalView(v)) ELSE None ]

\* view_target.post_process_write(): flips the main texture and hands out
\* the old main texture as source, the other one as destination.
PostProcessWrite(t) == [source |-> t.main, destination |-> Other(t.main)]

\* BindGroupEntries::sequential((...)) of run()
BindGroupEntriesInPlace(v, r, pp) ==
    << ColourView(v, pp.destination), pipelineRes.sampler, r.settings_binding.val,
       r.depth.val, r.normal.val, r.view_uniforms.val >>

BindGroupEntriesFirstView(v, r, pp) ==
    << ColourView(v, pp.source), pipelineRes.sampler, r.settings_binding.val,
       DepthView(1), NormalView(1), r.view_uniforms.val >>

BindGroupEntries(v, r, pp) ==
    << ColourView(v, pp.source), pipelineRes.sampler, r.settings_binding.val,
       r.depth.val, r.normal.val, r.view_uniforms.val >>

\* &[settings_index.index(), view_uniform.offset]
DynamicOffsetsSwapped(v) == <<ViewUniformOffset(v), SettingsIndex(v)>>

DynamicOffsets(v) == <<SettingsIndex(v), ViewUniformOffset(v)>>

NotRun == [ran |-> FALSE]

\* An invocation that returned before touching the render context.
Skipped(msgs) ==
    [ ran |-> TRUE, result |-> "Ok", printed |-> msgs, writes |-> 0,
      bind_groups |-> <<>>, passes |-> <<>>, pipelines |-> <<>>,
      offsets |-> <<>>, draws |-> <<>> ]

\* The control flow of run() on the outcome r of its lookups.
RunWith(v, r) ==
    IF ~r.pipeline.some THEN Skipped(<<>>)
    ELSE IF ~r.view_uniforms.some THEN Skipped(<<>>)
    ELSE IF ~r.settings_binding.some THEN Skipped(<<>>)
    ELSE IF ~(r.depth.some /\ r.normal.some)
         THEN Skipped(<<"could not find depth or normal">>)
    ELSE LET pp == PostProcessWrite(target[v]) IN
         [ ran |-> TRUE, result |-> "Ok", printed |-> <<>>, writes |-> 1,
           bind_groups |-> << [layout |-> pipelineRes.layout,
                               entries |-> BindGroupEntries(v, r, pp)] >>,
           passes |-> << ColourView(v, pp.destination) >>,
           pipelines |-> << r.pipeline.val >>,
           offsets |-> DynamicOffsets(v),
           draws |-> << [vertices |-> 3, instances |-> 1] >> ]
\* SimpletoonPostProcessNode::run for view v
SimpletoonRunEagerWrite(v) == [RunWith(v, Resolve(v)) EXCEPT !.writes = 1]

SimpletoonRunQuiet(v) == [RunWith(v, Resolve(v)) EXCEPT !.printed = <<>>]

SimpletoonRunSticky(v) ==
    IF skippedLast THEN Skipped(<<>>) ELSE RunWith(v, Resolve(v))

SimpletoonRun(v) == RunWith(v, Resolve(v))

\* run() borrows the world immutably: the resources it reads stay as they are.
WorldAfterRunRequeue ==
    [ pipelineRes |-> FromWorld, pipelineQueued |-> pipelineQueued + 1,
      creations |-> creations + 1 ]

WorldAfterRun ==
    [ pipelineRes |-> pipelineRes, pipelineQueued |-> pipelineQueued,
      creations |-> creations ]

\* The effect of an invocation's GPU commands on the views' colour targets:
\* each post_process_write flips the view's main texture, each draw fills
\* the texture attached to its pass.
TargetAfter(v, r) ==
    [ w \in Views |->
        LET flipped == IF w = v /\ r.writes = 1
                       THEN [target[w] EXCEPT !.main = Other(target[w].main)]
                       ELSE target[w]
        IN  IF r.draws # <<>> /\ r.passes # <<>> /\ r.passes[1].view = w
            THEN [flipped EXCEPT !.tex[r.passes[1].tex] = "toon"]
            ELSE flipped ]

\* ------------------------------------------------------------ host frame
FreshTarget == [main |-> "a", tex |-> [a |-> "scene", b |-> "stale"]]

\* Start of a frame: extraction and preparation decide which resources the
\* graph run will find.
Prepare ==
    /\ phase = "running"
    /\ hasRenderApp
    /\ ~frameOpen \/ \A v \in Views : done[v] = graphNodes
    /\ frameOpen' = TRUE
    /\ \E ready \in BOOLEAN :
         compiled' = IF ready
                     THEN compiled \cup {pipelineRes.pipeline_id}
                     ELSE compiled \ {pipelineRes.pipeline_id}
    /\ viewBinding' \in BOOLEAN
    /\ settingsBinding' \in BOOLEAN
    /\ prepass' \in [Views -> [depth : BOOLEAN, normal : BOOLEAN]]
    /\ target' = [v \in Views |-> FreshTarget]
    /\ done' = [v \in Views |-> {}]
    /\ inv' = [v \in Views |-> NotRun]
    /\ skippedLast' = \A v \in Views : inv[v].ran /\ inv[v].draws = <<>>
    /\ UNCHANGED <<phase, settings>>
    /\ UNCHANGED setupVars

\* The graph executor may run a node once every node with an edge into it
\* has run.
Runnable(v, n) ==
    /\ phase = "running"
    /\ frameOpen
    /\ n \in graphNodes
    /\ n \notin done[v]
    /\ \A e \in graphEdges : e[2] = n => e[1] \in done[v]

RunHostNode(v, n) ==
    /\ n \in HostNodes
    /\ Runnable(v, n)
    /\ done' = [done EXCEPT ![v] = @ \cup {n}]
    /\ UNCHANGED <<phase, settings, frameOpen, compiled, viewBinding,
                   settingsBinding, prepass, target, inv, skippedLast>>
    /\ UNCHANGED setupVars

\* ViewNodeRunner<SimpletoonPostProcessNode> runs the node for view v.
RunSimpletoon(v) ==
    /\ Runnable(v, SimpletoonPostProcessLabel)
    /\ LET r == SimpletoonRun(v) IN
         /\ inv' = [inv EXCEPT ![v] = r]
         /\ target' = TargetAfter(v, r)
    /\ done' = [done EXCEPT ![v] = @ \cup {SimpletoonPostProcessLabel}]
    /\ pipelineRes' = WorldAfterRun.pipelineRes
    /\ pipelineQueued' = WorldAfterRun.pipelineQueued
    /\ creations' = WorldAfterRun.creations
    /\ UNCHANGED <<phase, settings, frameOpen, compiled, viewBinding,
                   settingsBinding, prepass, skippedLast>>
    /\ UNCHANGED <<hasRenderApp, setupError, embeddedAssets, plugins,
                   graphNodes, graphEdges>>

\* ---------------------------------------------------------- specification
Init ==
    /\ phase = "new"
    /\ hasRenderApp \in BOOLEAN
    /\ setupError = FALSE
    /\ embeddedAssets = {}
    /\ plugins = {}
    /\ graphNodes = IF hasRenderApp THEN HostNodes ELSE {}
    /\ graphEdges = {}
    /\ pipelineRes = None
    /\ pipelineQueued = OtherPipelines
    /\ creations = 0
    /\ settings = [v \in Views |-> NoSettings]
    /\ frameOpen = FALSE
    /\ compiled = 0..(OtherPipelines - 1)
    /\ viewBinding = FALSE
    /\ settingsBinding = FALSE
    /\ prepass = [v \in Views |-> [depth |-> FALSE, normal |-> FALSE]]
    /\ target = [v \in Views |-> FreshTarget]
    /\ done = [v \in Views |-> {}]
    /\ inv = [v \in Views |-> NotRun]
    /\ skippedLast = FALSE

Next ==
    \/ Build
    \/ Finish
    \/ Setup
    \/ Prepare
    \/ \E v \in Views, n \in HostNodes : RunHostNode(v, n)
    \/ \E v \in Views : RunSimpletoon(v)

Spec == Init /\ [][Next]_vars

FairSpec == Spec /\ WF_vars(Next)
\* ------------------------------------------------------------ properties
Ran(v) == inv[v].ran
Drew(v) == inv[v].ran /\ inv[v].draws # <<>>

PipelineCompiled == pipelineRes.some /\ pipelineRes.pipeline_id \in compiled
PrepassPresent(v) == prepass[v].depth /\ prepass[v].normal
AllAvailable(v) ==
    PipelineCompiled /\ viewBinding /\ settingsBinding /\ PrepassPresent(v)

\* This step is view v's run() invocation.
RunStep(v) == ~inv[v].ran /\ inv'[v].ran

\* C1: an invocation that finds the pipeline uncompiled, a uniform binding
\* unavailable or a prepass texture absent issues no draw, begins no render
\* pass, creates no bind group, does not acquire the post-process target,
\* leaves the view's colour buffers as they were, and returns Ok(()).
C1_SkipTouchesNothing ==
    /\ [](\A v \in Views : Ran(v) /\ ~AllAvailable(v) =>
            /\ inv[v].draws = <<>>
            /\ inv[v].passes = <<>>
            /\ inv[v].bind_groups = <<>>
            /\ inv[v].writes = 0
            /\ inv[v].result = "Ok"
            /\ target[v] = FreshTarget)
    /\ [][\A v \in Views : RunStep(v) /\ ~AllAvailable(v) =>
            target'[v] = target[v]]_vars

C1_Witness ==
    \E v \in Views : Ran(v) /\ ~AllAvailable(v) /\ inv[v].draws = <<>>

\* C2: whether an invocation draws depends only on the availability of the
\* pipeline, the two bindings and the two prepass textures at that
\* invocation: it issues exactly one draw of 3 vertices and 1 instance when
\* all are available and none otherwise, whatever earlier invocations did;
\* and a view whose resources become and stay available keeps being drawn.
C2_StatelessSkip ==
    /\ [](\A v \in Views : Ran(v) =>
            inv[v].draws = IF AllAvailable(v)
                           THEN << [vertices |-> 3, instances |-> 1] >>
                           ELSE <<>>)
    /\ \A v \in Views : <>[]AllAvailable(v) => []<>Drew(v)

C2_Witness == \E v \in Views : skippedLast /\ Drew(v)
\* C3 (as claimed): every invocation for a view whose depth or normal
\* prepass texture is absent emits the diagnostic and skips the draw,
\* whatever the availability of the pipeline and the two bindings.
C3_DiagnosticOnEveryCombination ==
    \A v \in Views : Ran(v) /\ ~PrepassPresent(v) =>
        inv[v].printed # <<>> /\ inv[v].draws = <<>>

\* C3 (amended): an invocation for a view whose depth or normal prepass
\* texture is absent always skips the draw; it emits the diagnostic exactly
\* when the pipeline is compiled and both uniform bindings are available,
\* because the earlier checks return first without a message.
C3_DiagnosticAfterEarlierChecks ==
    \A v \in Views : Ran(v) =>
        /\ ~PrepassPresent(v) => inv[v].draws = <<>>
        /\ inv[v].printed # <<>> <=>
             (PipelineCompiled /\ viewBinding /\ settingsBinding
                /\ ~PrepassPresent(v))
        /\ inv[v].printed # <<>> =>
             inv[v].printed = << "could not find depth or normal" >>

C3_Witness ==
    \E v \in Views : Ran(v) /\ ~PrepassPresent(v) /\ inv[v].printed # <<>>

\* C4: with the edges build() registers, in every frame and for every view
\* the Simpletoon node runs after Tonemapping and before Fxaa, and Fxaa
\* before EndMainPassPostProcessing, in any schedule respecting the edges.
C4_FixedExecutionPoint ==
    /\ hasRenderApp /\ phase # "new" =>
         /\ SimpletoonPostProcessLabel \in graphNodes
         /\ { <<Tonemapping, SimpletoonPostProcessLabel>>,
              <<SimpletoonPostProcessLabel, Fxaa>>,
              <<Fxaa, EndMainPassPostProcessing>> } \subseteq graphEdges
    /\ \A v \in Views :
         /\ SimpletoonPostProcessLabel \in done[v] => Tonemapping \in done[v]
         /\ Fxaa \in done[v] => SimpletoonPostProcessLabel \in done[v]
         /\ EndMainPassPostProcessing \in done[v] => Fxaa \in done[v]
         /\ Ran(v) <=> SimpletoonPostProcessLabel \in done[v]

C4_Witness ==
    \E v, w \in Views :
        /\ SimpletoonPostProcessLabel \in done[v] /\ Fxaa \notin done[v]
        /\ done[w] = graphNodes

\* Whether a layout slot accepts a bound resource.
Accepts(slot, res) ==
    CASE slot.ty = "texture_2d" ->
            res.res \in {"colour_texture", "normal_texture"}
      [] slot.ty = "texture_depth_2d" -> res.res = "depth_texture"
      [] slot.ty = "sampler" -> res.res = "sampler" /\ res.of = slot.of
      [] slot.ty = "uniform_buffer" -> res.res = "uniform" /\ res.of = slot.of
      [] OTHER -> FALSE

\* The slots of a layout that take a dynamic offset, in slot order.
DynamicSlots(layout) ==
    SelectSeq(layout, LAMBDA slot : slot.dynamic)

\* C5: the layout has exactly six slots in the order colour source, sampler,
\* settings uniform (dynamic), depth, normal, view uniform (dynamic); every
\* drawing invocation binds at each slot a resource of the declared kind and
\* passes exactly two dynamic offsets, settings index first, view offset second.
C5_LayoutAndBindingsAgree ==
    /\ pipelineRes.some =>
         /\ Len(pipelineRes.layout) = 6
         /\ [i \in 1..6 |-> pipelineRes.layout[i].ty] =
              << "texture_2d", "sampler", "uniform_buffer",
                 "texture_depth_2d", "texture_2d", "uniform_buffer" >>
         /\ [i \in 1..6 |-> pipelineRes.layout[i].dynamic] =
              << FALSE, FALSE, TRUE, FALSE, FALSE, TRUE >>
         /\ pipelineRes.layout[1].of = "float_filterable"
         /\ pipelineRes.layout[2].of = "filtering"
         /\ pipelineRes.layout[3].of = "SimpletoonSettings"
         /\ pipelineRes.layout[5].of = "float_filterable"
         /\ pipelineRes.layout[6].of = "ViewUniform"
    /\ \A v \in Views : Drew(v) =>
         LET bg == inv[v].bind_groups[1]
             dyn == DynamicSlots(bg.layout)
         IN  /\ Len(inv[v].bind_groups) = 1
             /\ Len(bg.entries) = Len(bg.layout)
             /\ \A i \in 1..Len(bg.layout) : Accepts(bg.layout[i], bg.entries[i])
             /\ bg.entries[1].res = "colour_texture"
             /\ bg.entries[5].res = "normal_texture"
             /\ Len(inv[v].offsets) = 2
             /\ Len(dyn) = 2
             /\ \A k \in 1..2 : inv[v].offsets[k].buffer = dyn[k].of
             /\ inv[v].offsets[1] = SettingsIndex(v)
             /\ inv[v].offsets[2] = ViewUniformOffset(v)

C5_Witness ==
    \E v \in Views : Drew(v) /\ Len(inv[v].bind_groups[1].entries) = 6
\* C6 (as claimed): without a render sub-application build and finish leave
\* the application unchanged (no node, no edges, no pipeline resource, no
\* other plugin or asset registration) and raise no error.
C6_SetupLeavesAppUnchanged ==
    ~hasRenderApp =>
        /\ graphNodes = {} /\ graphEdges = {}
        /\ ~pipelineRes.some /\ pipelineQueued = OtherPipelines
        /\ plugins = {} /\ embeddedAssets = {}
        /\ ~setupError

\* C6 (amended): without a render sub-application build and finish add no
\* render-graph node, no graph edges and no pipeline resource, queue no
\* pipeline and raise no error; build still registers the embedded shader
\* asset and the extract and uniform component plugins in the main app.
C6_SetupAddsNoRenderState ==
    ~hasRenderApp =>
        /\ graphNodes = {} /\ graphEdges = {}
        /\ ~pipelineRes.some /\ pipelineQueued = OtherPipelines
        /\ creations = 0
        /\ ~setupError
        /\ phase # "new" =>
             /\ embeddedAssets = {"assets/toon.wgsl"}
             /\ plugins = {"ExtractComponentPlugin<SimpletoonSettings>",
                           "UniformComponentPlugin<SimpletoonSettings>"}

C6_Witness == ~hasRenderApp /\ phase = "finished" /\ plugins # {}

\* C7: SimpletoonSettings::default() is depth_threshold 1.0,
\* depth_threshold_depth_mul 1.0, depth_normal_threshold 0.4,
\* depth_normal_threshold_mul 30.0, normal_threshold 0.4, colour_threshold
\* 0.2, stroke_size 1.0, colour_banding 5.0, stroke_colour (0.1,0.1,0.1,1.0).
C7_DefaultSettings ==
    \A v \in Views : settings[v] # NoSettings =>
        /\ DOMAIN settings[v] =
             { "depth_threshold", "depth_threshold_depth_mul",
               "depth_normal_threshold", "depth_normal_threshold_mul",
               "normal_threshold", "colour_threshold", "stroke_size",
               "colour_banding", "stroke_colour" }
        /\ settings[v].depth_threshold = 10
        /\ settings[v].depth_threshold_depth_mul = 10
        /\ settings[v].depth_normal_threshold = 4
        /\ settings[v].depth_normal_threshold_mul = 300
        /\ settings[v].normal_threshold = 4
        /\ settings[v].colour_threshold = 2
        /\ settings[v].stroke_size = 10
        /\ settings[v].colour_banding = 50
        /\ settings[v].stroke_colour = <<1, 1, 1, 10>>

C7_Witness == \A v \in Views : settings[v] # NoSettings

\* C8: a drawing invocation acquires the ping-pong target exactly once,
\* after every availability check has passed, samples the post-process
\* source at slot 0 and writes only the post-process destination, its
\* single colour attachment; the two are distinct buffers.
C8_ReadsSourceWritesDestination ==
    \A v \in Views :
        /\ Ran(v) /\ inv[v].writes > 0 => AllAvailable(v)
        /\ Drew(v) =>
             LET src == inv[v].bind_groups[1].entries[1]
                 dst == inv[v].passes[1]
             IN  /\ inv[v].writes = 1
                 /\ Len(inv[v].passes) = 1
                 /\ src = ColourView(v, FreshTarget.main)
                 /\ dst = ColourView(v, target[v].main)
                 /\ src # dst
                 /\ target[v].tex[src.tex] = FreshTarget.tex[src.tex]
                 /\ target[v].tex[dst.tex] = "toon"

C8_Witness ==
    \E v \in Views : Drew(v) /\ target[v].main # FreshTarget.main

\* C9: the PostProcessPipeline resource is created exactly once, in finish,
\* and never recreated or modified; every invocation reads the same layout,
\* sampler and pipeline id, and run queues no pipeline and writes no resource.
C9_PipelineCreatedOnce ==
    /\ [](/\ pipelineRes.some <=> hasRenderApp /\ phase \notin {"new", "built"}
          /\ creations = IF pipelineRes.some THEN 1 ELSE 0
          /\ pipelineQueued = OtherPipelines + creations
          /\ pipelineRes.some =>
               /\ pipelineRes.layout = PostProcessLayout
               /\ pipelineRes.sampler = DefaultSampler
               /\ pipelineRes.pipeline_id = OtherPipelines
          /\ \A v \in Views : Drew(v) =>
               /\ inv[v].bind_groups[1].layout = pipelineRes.layout
               /\ inv[v].bind_groups[1].entries[2] = pipelineRes.sampler
               /\ inv[v].pipelines = << pipelineRes.pipeline_id >>)
    /\ [][(pipelineRes.some \/ phase # "built") =>
            /\ pipelineRes' = pipelineRes
            /\ pipelineQueued' = pipelineQueued
            /\ creations' = creations]_vars

C9_Witness == skippedLast /\ \A v \in Views : Drew(v)

\* C10: invocations for different views are independent under every
\* interleaving: a view's draw uses its own settings index, view-uniform
\* offset, prepass textures and colour target, whether it draws depends on
\* its own resources only, and its invocation leaves every other view's
\* invocation record and colour target as they were.
C10_ViewsIndependent ==
    /\ [](\A v \in Views :
            /\ Ran(v) => (Drew(v) <=> AllAvailable(v))
            /\ Drew(v) =>
                 LET e == inv[v].bind_groups[1].entries IN
                 /\ inv[v].offsets = <<SettingsIndex(v), ViewUniformOffset(v)>>
                 /\ e[1].view = v
                 /\ e[4] = DepthView(v)
                 /\ e[5] = NormalView(v)
                 /\ \A i \in 1..Len(inv[v].passes) : inv[v].passes[i].view = v
            /\ ~Drew(v) => target[v] = FreshTarget)
    /\ [][\A v \in Views : RunStep(v) =>
            \A w \in Views \ {v} : inv'[w] = inv[w] /\ target'[w] = target[w]]_vars

C10_Witness ==
    \E v, w \in Views :
        /\ v # 1
        /\ Drew(v)
        /\ Ran(w) /\ ~Drew(w)
====
